---- MODULE Spec2Model ----
(***************************************************************************)
(* Model of the disposable ViewModel base object and of the extend helper  *)
(* (src/www/js/components/textEditor/textEditor.js, lines 36-163).         *)
(*                                                                         *)
(* Three specifications:                                                     *)
(*   Spec     a heap of objects built by new / subView, on which computed, *)
(*            subscribe, subView, dispose and disposeSubView are called;   *)
(*   SpecExt  types built by extend / Constructor.extend and instances     *)
(*            built from them;                                             *)
(*   SpecRe   as Spec, for a root whose onDispose hook registers on the    *)
(*            instance being disposed.                                     *)
(***************************************************************************)
EXTENDS Integers, Sequences, FiniteSets, TLC

(* ----------------------------- bounds ---------------------------------- *)
\* objects on the heap (the root included)
MaxObjs == 4
\* computed values plus subscriptions ever created
MaxRes == 2
\* calls by the client that change the heap
MaxCalls == 4
\* length of an extend chain
MaxDepth == 2

(* --------------------------- JavaScript values -------------------------- *)
Undefined == "undefined"
Numbers == {"1", "2"}
\* callables a client may install as onDispose: one returns, one throws, and
\* one registers on the instance being disposed:
\* function () { this.computed(f); this.subscribe(obs, g); this.subView(ViewModel); }
HookFns == {"hookNoop", "hookThrow", "hookReg"}
Values == Numbers \cup HookFns \cup {Undefined}
FieldNames == {"x", "y", "onDispose"}

\* arguments[n-1] of a call: undefined when the caller passed fewer
Arg(args, n) == IF n <= Len(args) THEN args[n] ELSE Undefined

\* _.isFunction(v)
IsFunction(v) == v \in HookFns

NoFields == [f \in FieldNames |-> Undefined]

(* ------------------------- types and construction ----------------------- *)
\* The root types: ViewModel itself, and a plain constructor
\* function (x) { this.x = x; } that defines no dispose.
BaseTypes == {"ViewModel", "Parent"}

\* init functions handed to extend: function () { this[field] = arguments[arg-1]; }
Inits == {"initY", "initX2", "initHook"}
InitField(init) ==
    CASE init = "initY" -> "y"
      [] init = "initX2" -> "x"
      [] init = "initHook" -> "onDispose"
InitArg(init) ==
    CASE init = "initY" -> 1
      [] init = "initX2" -> 2
      [] init = "initHook" -> 1

\* A type is its root type and the extend steps stacked on it, innermost first.
RootType(base) == [base |-> base, ext |-> <<>>]

\* extend(Parent, init, passArgsToParent): the Constructor closure captures the three.
extend(Parent, init, passArgsToParent) ==
    [Parent EXCEPT !.ext = Append(@, [init |-> init, pass |-> passArgsToParent])]

\* new ViewModel() / new Parent(x): a fresh object. vm says that the ViewModel
\* body ran on it, so that it carries computed, subscribe, subView, dispose,
\* disposeSubView and three fresh (empty) sequences. raised says that the
\* constructor raised instead of yielding an object, as the root constructor
\* function () { throw new Error(); } ("Thrower") does.
NewBase(base, args) ==
    CASE base = "ViewModel" ->
             [proto |-> "ViewModel", vm |-> TRUE, fields |-> NoFields,
              applied |-> <<"ViewModel">>, raised |-> FALSE]
      [] base = "Thrower" ->
             [proto |-> "Thrower", vm |-> FALSE, fields |-> NoFields,
              applied |-> <<"Thrower">>, raised |-> TRUE]
      [] OTHER ->
             [proto |-> "Parent", vm |-> FALSE,
              fields |-> [NoFields EXCEPT !["x"] = Arg(args, 1)],
              applied |-> <<"Parent">>, raised |-> FALSE]

\* init.apply(base, arguments)
ApplyInit(init, base, args) ==
    [base EXCEPT !.fields[InitField(init)] = Arg(args, InitArg(init)),
                 !.applied = Append(@, init)]

\* Invoking a type with arguments: the body of Constructor for an extended
\* type, the root constructor otherwise.
RECURSIVE Construct(_, _)

\* A Constructor that hands its arguments to the parent whatever the flag.
ConstructAlwaysPasses(T, args) ==
    IF T.ext = <<>>
    THEN NewBase(T.base, args)
    ELSE LET top == T.ext[Len(T.ext)]
             Parent == [T EXCEPT !.ext = SubSeq(@, 1, Len(@) - 1)]
             base == Construct(Parent, args)
         IN  IF base.raised THEN base ELSE ApplyInit(top.init, base, args)

Construct(T, args) ==
    IF T.ext = <<>>
    THEN NewBase(T.base, args)
    ELSE LET top == T.ext[Len(T.ext)]
             Parent == [T EXCEPT !.ext = SubSeq(@, 1, Len(@) - 1)]
             base == IF top.pass THEN Construct(Parent, args)
                                 ELSE Construct(Parent, <<>>)
         IN  IF base.raised THEN base ELSE ApplyInit(top.init, base, args)

\* A bind that takes the first constructor argument for the bound this.
BindApplyShifted(fn, arguments) ==
    [target |-> fn, boundThis |-> Arg(Tail(arguments), 1),
     boundArgs |-> IF Len(arguments) >= 2 THEN Tail(Tail(arguments)) ELSE <<>>]

\* subViewConstructor.bind.apply(subViewConstructor, arguments): bind is called
\* with this = subViewConstructor and with arguments[0] as the bound this,
\* the rest as the bound leading arguments.
BindApply(fn, arguments) ==
    [target |-> fn, boundThis |-> Head(arguments), boundArgs |-> Tail(arguments)]

\* new ProxyConstructor(): new on a bound function ignores the bound this and
\* constructs the target with the bound arguments followed by the call's.
NewBound(proxy, args) == Construct(proxy.target, proxy.boundArgs \o args)

(* ------------------------------ the heap -------------------------------- *)
VARIABLES
    heap,            \* the objects built so far, by identity (index)
    computedValues,  \* per object: the closure variable computedValues
    subscriptions,   \* per object: the closure variable subscriptions
    subViews,        \* per object: the closure variable subViews
    res,             \* the computed values and subscriptions created so far
    rdisp,           \* per resource: how often its dispose() was invoked
    vdisp,           \* per object: how often its dispose() was invoked
    ndone,           \* per object: how often its dispose() returned normally
    pdisp,           \* per object: how often the instance that built it
                     \* invoked its dispose()
    creator,         \* per object: whose subView call built it (0: the client's new)
    srcSubs,         \* per source: how many subscriptions it has handed out
    log,             \* the disposals of the last call, in order
    last,            \* the last call: operation, receiver, arguments, outcome
    pre,             \* the heap as it was when the last call started
    ncalls,          \* calls so far that changed the heap
    root,            \* SpecExt: the root type the extend chain starts from
    chain,           \* SpecExt: the extend calls made, [init, pass] each
    type,            \* SpecExt: the constructor the last extend returned
    made             \* SpecExt: the instance last built from type, if any

heapVars == <<heap, computedValues, subscriptions, subViews, res, rdisp, vdisp,
              ndone, pdisp, creator, srcSubs, log, last, pre, ncalls>>
extVars == <<root, chain, type, made>>
vars == <<heapVars, extVars>>

\* What subscribe may be handed: a ko observable, an observable whose
\* subscribe raises, an object that has a subscribe method but is no
\* observable, and a value with no such method.
Sources == {"obs", "obsRaises", "fake", "plain"}
\* ko.isObservable(source)
IsObservable(source) == source \in {"obs", "obsRaises"}
HasSubscribe(source) == source \in {"obs", "obsRaises", "fake"}
\* What computed may be handed: an evaluator that returns, and one that
\* raises when ko.computed evaluates it for the first time.
Evaluators == {"evalOk", "evalRaises"}

\* The mutable world the operations act on, as one value.
World ==
    [heap |-> heap, computedValues |-> computedValues,
     subscriptions |-> subscriptions, subViews |-> subViews, res |-> res,
     rdisp |-> rdisp, vdisp |-> vdisp, ndone |-> ndone, pdisp |-> pdisp,
     creator |-> creator, srcSubs |-> srcSubs,
     log |-> <<>>]

Returned(W, ret) == [w |-> W, thrown |-> FALSE, ret |-> ret]
Thrown(W) == [w |-> W, thrown |-> TRUE, ret |-> 0]

\* A new computed value or subscription. throws: whether its dispose() raises.
\* epoch: how many dispose() calls of the owner had completed when it was made.
NewResource(W, kind, owner, throws) ==
    [W EXCEPT !.res = Append(@, [kind |-> kind, owner |-> owner,
                                 throws |-> throws,
                                 epoch |-> W.ndone[owner]]),
              !.rdisp = Append(@, 0)]

\* A computed that pushes on the list of the first instance of its type, as
\* methods inherited from one prototype instance would.
ViewModelComputedSharedClosure(W, self, evaluator, throws) ==
    LET W1 == NewResource(W, "computed", self, throws)
        computed == Len(W1.res)
        first == CHOOSE i \in 1..Len(W.heap) :
                     /\ W.heap[i].applied = W.heap[self].applied
                     /\ \A j \in 1..(i - 1) :
                            W.heap[j].applied # W.heap[self].applied
    IN  IF evaluator = "evalRaises" THEN Thrown(W)
        ELSE Returned([W1 EXCEPT !.computedValues[first] = Append(@, computed)],
                      computed)

\* ko.computed.apply(ko, arguments): the evaluator runs once at creation, and
\* what it raises comes out of ko.computed; else a new computed value.
KoComputed(W, self, evaluator, throws) ==
    IF evaluator = "evalRaises"
    THEN Thrown(W)
    ELSE LET W1 == NewResource(W, "computed", self, throws)
         IN  Returned(W1, Len(W1.res))

\* A computed that creates its value with evaluation deferred: the evaluator
\* does not run at creation, and the value is registered whatever it does.
ViewModelComputedDeferred(W, self, evaluator, throws) ==
    LET c == KoComputed(W, self, "evalOk", throws)
    IN  Returned([c.w EXCEPT !.computedValues[self] = Append(@, c.ret)], c.ret)

\* self.computed: ko.computed.apply(ko, arguments), push, return.
ViewModelComputed(W, self, evaluator, throws) ==
    LET computed == KoComputed(W, self, evaluator, throws)
    IN  IF computed.thrown THEN computed
        ELSE Returned([computed.w EXCEPT !.computedValues[self] =
                                             Append(@, computed.ret)],
                      computed.ret)

\* observable.subscribe.apply(observable, args): a TypeError when the source
\* has no subscribe method, the source's own error when its subscribe
\* raises, else a new subscription on the source.
SourceSubscribe(W, self, source, throws) ==
    IF ~HasSubscribe(source) \/ source = "obsRaises"
    THEN Thrown(W)
    ELSE LET W1 == NewResource(W, "subscription", self, throws)
         IN  Returned([W1 EXCEPT !.srcSubs[source] = @ + 1], Len(W1.res))

\* A subscribe that validates its argument only after subscribing.
ViewModelSubscribeLateCheck(W, self, observable, throws) ==
    LET s == SourceSubscribe(W, self, observable, throws)
    IN  IF s.thrown THEN s
        ELSE IF ~IsObservable(observable) THEN Thrown(s.w)
        ELSE Returned([s.w EXCEPT !.subscriptions[self] = Append(@, s.ret)],
                      s.ret)

\* A subscribe that keeps its subscription in the list of computed values.
ViewModelSubscribeOneList(W, self, observable, throws) ==
    IF ~IsObservable(observable)
    THEN Thrown(W)
    ELSE LET s == SourceSubscribe(W, self, observable, throws)
         IN  IF s.thrown THEN s
             ELSE Returned([s.w EXCEPT !.computedValues[self] =
                                           Append(@, s.ret)], s.ret)

\* self.subscribe: the observable test first, then subscribe, push, return.
ViewModelSubscribe(W, self, observable, throws) ==
    IF ~IsObservable(observable)
    THEN Thrown(W)
    ELSE LET s == SourceSubscribe(W, self, observable, throws)
         IN  IF s.thrown THEN s
             ELSE Returned([s.w EXCEPT !.subscriptions[self] =
                                           Append(@, s.ret)], s.ret)

\* Placing a newly constructed object on the heap, with its own empty
\* sequences and counters. by: the object whose subView call built it, with
\* the number of its dispose() calls that had completed by then.
Allocate(W, obj, by) ==
    [W EXCEPT !.heap = Append(@, obj),
              !.computedValues = Append(@, <<>>),
              !.subscriptions = Append(@, <<>>),
              !.subViews = Append(@, <<>>),
              !.vdisp = Append(@, 0),
              !.ndone = Append(@, 0),
              !.pdisp = Append(@, 0),
              !.creator = Append(@, [by |-> by, epoch |-> W.ndone[by]])]

\* A subView that also enters the new instance in the first instance's list,
\* as one list of subViews shared by the whole tree would.
ViewModelSubViewAlsoOnRoot(W, self, arguments) ==
    LET ProxyConstructor == BindApply(Head(arguments), arguments)
        W1 == Allocate(W, NewBound(ProxyConstructor, <<>>), self)
        subView == Len(W1.heap)
        W2 == [W1 EXCEPT !.subViews[self] = Append(@, subView)]
    IN  IF NewBound(ProxyConstructor, <<>>).raised THEN Thrown(W)
        ELSE Returned(IF self = 1 THEN W2
                      ELSE [W2 EXCEPT !.subViews[1] = Append(@, subView)],
                      subView)

\* self.subView: bind, new, push, return. arguments[0] is the constructor;
\* what the constructor raises comes out of new, before the push.
ViewModelSubView(W, self, arguments) ==
    LET ProxyConstructor == BindApply(Head(arguments), arguments)
        instance == NewBound(ProxyConstructor, <<>>)
        W1 == Allocate(W, instance, self)
        subView == Len(W1.heap)
    IN  IF instance.raised THEN Thrown(W)
        ELSE Returned([W1 EXCEPT !.subViews[self] = Append(@, subView)],
                      subView)

(* ------------------------------- dispose -------------------------------- *)
\* One disposal, as the log records it: what was invoked (the onDispose hook,
\* a computed value's, a subscription's or a subView's dispose), by the
\* dispose call of which object, and on which resource or object.
Event(ev, by, id, args) == [ev |-> ev, by |-> by, id |-> id, args |-> args]

RECURSIVE ViewModelDispose(_, _, _)
RECURSIVE EachResource(_, _, _, _)
RECURSIVE EachSubView(_, _, _, _)

\* _.each(list, function (r) { r.dispose(); }) over computed values or
\* subscriptions, from position k on: a raising dispose ends the iteration.
EachResource(W, self, list, k) ==
    IF k > Len(list)
    THEN Returned(W, 0)
    ELSE LET r == list[k]
             W1 == [W EXCEPT !.rdisp[r] = @ + 1,
                             !.log = Append(@, Event(W.res[r].kind, self, r, <<>>))]
         IN  IF W.res[r].throws THEN Thrown(W1)
             ELSE EachResource(W1, self, list, k + 1)

\* _.each(subViews, function (subView) { subView.dispose(); }): a subView
\* without a dispose method raises a TypeError, a raising dispose propagates.
EachSubView(W, self, list, k) ==
    IF k > Len(list)
    THEN Returned(W, 0)
    ELSE LET subView == list[k]
         IN  IF ~W.heap[subView].vm
             THEN Thrown(W)
             ELSE LET d == ViewModelDispose(
                               [W EXCEPT !.pdisp[subView] = @ + 1,
                                         !.log = Append(@, Event("subView", self,
                                                              subView, <<>>))],
                               subView, <<>>)
                  IN  IF d.thrown THEN d
                      ELSE EachSubView(d.w, self, list, k + 1)

\* The body of the registering hook, run with this = self.
HookRegisters(W, self) ==
    LET c == ViewModelComputed(W, self, "evalOk", FALSE)
        s == ViewModelSubscribe(c.w, self, "obs", FALSE)
    IN  ViewModelSubView(s.w, self, <<RootType("ViewModel")>>)

\* if (_.isFunction(this.onDispose)) this.onDispose.apply(self, arguments)
CallOnDispose(W, self, arguments) ==
    LET onDispose == W.heap[self].fields["onDispose"]
    IN  IF ~IsFunction(onDispose)
        THEN Returned(W, 0)
        ELSE LET W1 == [W EXCEPT !.log = Append(@, Event("hook", self, 0, arguments))]
             IN  CASE onDispose = "hookThrow" -> Thrown(W1)
                   [] onDispose = "hookReg" -> Returned(HookRegisters(W1, self).w, 0)
                   [] OTHER -> Returned(W1, 0)

\* A cleanup that empties the list whether or not a dispose raised.
DisposeComputedValuesFinally(W, self) ==
    LET e == EachResource(W, self, W.computedValues[self], 1)
    IN  [e EXCEPT !.w.computedValues[self] = <<>>]

\* Cleanup computed values: dispose each, then computedValues = [].
DisposeComputedValues(W, self) ==
    LET e == EachResource(W, self, W.computedValues[self], 1)
    IN  IF e.thrown THEN e
        ELSE Returned([e.w EXCEPT !.computedValues[self] = <<>>], 0)

\* Cleanup subscriptions: dispose each, then subscriptions = [].
DisposeSubscriptions(W, self) ==
    LET e == EachResource(W, self, W.subscriptions[self], 1)
    IN  IF e.thrown THEN e
        ELSE Returned([e.w EXCEPT !.subscriptions[self] = <<>>], 0)

\* A cleanup of the subViews that releases what each subView holds itself but
\* does not go on to the subViews of the subView.
RECURSIVE EachSubViewOneLevel(_, _, _, _)
EachSubViewOneLevel(W, self, list, k) ==
    IF k > Len(list)
    THEN Returned(W, 0)
    ELSE LET subView == list[k]
             W0 == [W EXCEPT !.vdisp[subView] = @ + 1,
                             !.pdisp[subView] = @ + 1,
                             !.log = Append(@, Event("subView", self,
                                                     subView, <<>>))]
         IN  IF ~W.heap[subView].vm
             THEN Thrown(W)
             ELSE LET c == DisposeComputedValues(W0, subView)
                  IN  IF c.thrown THEN c
                      ELSE LET s == DisposeSubscriptions(c.w, subView)
                           IN  IF s.thrown THEN s
                               ELSE EachSubViewOneLevel(
                                        [s.w EXCEPT !.ndone[subView] = @ + 1],
                                        self, list, k + 1)

DisposeSubViewsOneLevel(W, self) ==
    LET e == EachSubViewOneLevel(W, self, W.subViews[self], 1)
    IN  IF e.thrown THEN e
        ELSE Returned([e.w EXCEPT !.subViews[self] = <<>>], 0)

\* A cleanup that disposes each subView but leaves the list as it is.
DisposeSubViewsKeeps(W, self) ==
    EachSubView(W, self, W.subViews[self], 1)

\* Recurse to any associated view models: dispose each, then subViews = [].
DisposeSubViews(W, self) ==
    LET e == EachSubView(W, self, W.subViews[self], 1)
    IN  IF e.thrown THEN e
        ELSE Returned([e.w EXCEPT !.subViews[self] = <<>>], 0)

\* A dispose that cleans up the subscriptions before the computed values.
ViewModelDisposeSubscriptionsFirst(W, self, arguments) ==
    LET W0 == [W EXCEPT !.vdisp[self] = @ + 1]
        h == CallOnDispose(W0, self, arguments)
    IN  IF h.thrown THEN h
        ELSE LET s == DisposeSubscriptions(h.w, self)
             IN  IF s.thrown THEN s
                 ELSE LET c == DisposeComputedValues(s.w, self)
                      IN  IF c.thrown THEN c
                          ELSE LET v == DisposeSubViews(c.w, self)
                               IN  IF v.thrown THEN v
                                   ELSE Returned([v.w EXCEPT !.ndone[self] = @ + 1], 0)

\* self.dispose: the hook, the computed values, the subscriptions, the
\* subViews; the first raise ends the call where it stands.
ViewModelDispose(W, self, arguments) ==
    LET W0 == [W EXCEPT !.vdisp[self] = @ + 1]
        h == CallOnDispose(W0, self, arguments)
    IN  IF h.thrown THEN h
        ELSE LET c == DisposeComputedValues(h.w, self)
             IN  IF c.thrown THEN c
                 ELSE LET s == DisposeSubscriptions(c.w, self)
                      IN  IF s.thrown THEN s
                          ELSE LET v == DisposeSubViews(s.w, self)
                               IN  IF v.thrown THEN v
                                   ELSE Returned([v.w EXCEPT !.ndone[self] = @ + 1], 0)

\* subViews.indexOf(subView): the 0-based position of the first occurrence, or -1.
IndexOf(list, x) ==
    IF \E k \in 1..Len(list) : list[k] = x
    THEN (CHOOSE k \in 1..Len(list) :
              list[k] = x /\ \A j \in 1..(k - 1) : list[j] # x) - 1
    ELSE -1

\* list.splice(index): without a count, everything from index on goes.
SpliceRest(list, index) == SubSeq(list, 1, index)

\* list.splice(index, 1) for a 0-based index within the list
Splice1(list, index) ==
    SubSeq(list, 1, index) \o SubSeq(list, index + 2, Len(list))

\* A disposeSubView that does not test the index: splice(-1, 1) takes the
\* last element, and a value that is no object has no dispose to read.
ViewModelDisposeSubViewNoIndexTest(W, self, subView) ==
    LET index == IndexOf(W.subViews[self], subView)
        list == W.subViews[self]
    IN  IF subView = 0 THEN Thrown(W)
        ELSE IF ~W.heap[subView].vm THEN Returned(W, 0)
        ELSE ViewModelDispose(
                 [W EXCEPT !.subViews[self] =
                               IF index = -1 THEN SubSeq(list, 1, Len(list) - 1)
                               ELSE Splice1(list, index),
                           !.pdisp[subView] = @ + 1,
                           !.log = Append(@, Event("subView", self, subView, <<>>))],
                 subView, <<>>)

\* A disposeSubView that tests the index only: the subView is taken out of
\* the list, and calling a dispose it does not have raises a TypeError.
ViewModelDisposeSubViewNoFunctionTest(W, self, subView) ==
    LET index == IndexOf(W.subViews[self], subView)
        W1 == [W EXCEPT !.subViews[self] = Splice1(@, index)]
    IN  IF index = -1 THEN Returned(W, 0)
        ELSE IF ~W.heap[subView].vm THEN Thrown(W1)
        ELSE ViewModelDispose(
                 [W1 EXCEPT !.pdisp[subView] = @ + 1,
                            !.log = Append(@, Event("subView", self, subView, <<>>))],
                 subView, <<>>)

\* self.disposeSubView. subView = 0 stands for a value that is no object.
ViewModelDisposeSubView(W, self, subView) ==
    LET index == IndexOf(W.subViews[self], subView)
    IN  IF index = -1 \/ ~W.heap[subView].vm
        THEN Returned(W, 0)
        ELSE ViewModelDispose(
                 [W EXCEPT !.subViews[self] = Splice1(@, index),
                           !.pdisp[subView] = @ + 1,
                           !.log = Append(@, Event("subView", self, subView, <<>>))],
                 subView, <<>>)

(* ------------------------------ the client ------------------------------ *)
ViewModelType == RootType("ViewModel")
ParentType == RootType("Parent")
\* function () { throw new Error(); }
ThrowerType == RootType("Thrower")
\* ViewModel.extend(function (h) { this.onDispose = h; }, true)
HookedType == extend(ViewModelType, "initHook", TRUE)

\* The constructions the client asks for, by new Ctor(a, b) for the root and
\* by subView(Ctor, a, b): the constructor and its argument list.
Ctor(ctor, args) == [ctor |-> ctor, args |-> args]
\* The root is a view model with a hook that returns; every kind of instance
\* occurs below it, and dispose is called on those directly as well.
RootCtors == {Ctor(HookedType, <<"hookNoop", "1">>)}
SubCtors == RootCtors \cup {Ctor(ViewModelType, <<"1", "2">>),
                             Ctor(HookedType, <<"hookThrow", "2">>),
                             Ctor(ParentType, <<"1", "2">>),
                             Ctor(ThrowerType, <<"1", "2">>)}
\* The arguments the client hands to dispose.
DisposeArgs == {<<"1">>}

Objects == 1..Len(heap)
\* the objects that carry the ViewModel methods
ViewModels == {i \in Objects : heap[i].vm}

NoCall == [op |-> "new", self |-> 0, arg |-> 0, src |-> "none",
           evaluator |-> "none", ctor |-> ViewModelType, args |-> <<>>, thrown |-> FALSE, ret |-> 0]

\* The state after a call that took the world from World to r.w.
Commit(r, call) ==
    /\ heap' = r.w.heap
    /\ computedValues' = r.w.computedValues
    /\ subscriptions' = r.w.subscriptions
    /\ subViews' = r.w.subViews
    /\ res' = r.w.res
    /\ rdisp' = r.w.rdisp
    /\ vdisp' = r.w.vdisp
    /\ ndone' = r.w.ndone
    /\ pdisp' = r.w.pdisp
    /\ creator' = r.w.creator
    /\ srcSubs' = r.w.srcSubs
    /\ log' = r.w.log
    /\ last' = [call EXCEPT !.thrown = r.thrown, !.ret = r.ret]
    /\ pre' = World
    /\ ncalls' = IF [r.w EXCEPT !.log = <<>>] = World THEN ncalls ELSE ncalls + 1
    /\ UNCHANGED extVars

EmptyWorld ==
    [heap |-> <<>>, computedValues |-> <<>>, subscriptions |-> <<>>,
     subViews |-> <<>>, res |-> <<>>, rdisp |-> <<>>, vdisp |-> <<>>,
     ndone |-> <<>>, pdisp |-> <<>>, creator |-> <<>>, srcSubs |-> [s \in Sources |-> 0],
     log |-> <<>>]

\* No object built yet.
HeapIdle ==
    /\ World = EmptyWorld
    /\ log = <<>>
    /\ last = NoCall
    /\ pre = EmptyWorld
    /\ ncalls = 0

\* No extend call made.
ExtIdle ==
    /\ root = "ViewModel"
    /\ chain = <<>>
    /\ type = ViewModelType
    /\ made = <<>>

\* The state after construction: one root object, built by new from one of
\* the constructors ctors, which yield a view model.
InitFrom(ctors) ==
    /\ \E c \in ctors :
           /\ heap = <<Construct(c.ctor, c.args)>>
           /\ last = [NoCall EXCEPT !.ctor = c.ctor, !.args = c.args, !.ret = 1]
    /\ computedValues = << <<>> >>
    /\ subscriptions = << <<>> >>
    /\ subViews = << <<>> >>
    /\ res = <<>>
    /\ rdisp = <<>>
    /\ vdisp = <<0>>
    /\ ndone = <<0>>
    /\ pdisp = <<0>>
    /\ creator = <<[by |-> 0, epoch |-> 0]>>
    /\ srcSubs = [s \in Sources |-> 0]
    /\ log = <<>>
    /\ pre = EmptyWorld
    /\ ncalls = 0
    /\ ExtIdle

\* The root is built from one of the client's constructors.
Init == InitFrom(RootCtors)

\* A call that left the heap as it was (a refused subscribe, a disposeSubView
\* that found nothing to do) is explored as the last call of a run: whatever
\* the client does after it, it can do, with the same effect, without it.
LastCallChangedHeap == pre # World

\* vm.computed(evaluator)
Computed ==
    /\ ncalls < MaxCalls
    /\ LastCallChangedHeap
    /\ \E self \in ViewModels, evaluator \in Evaluators, throws \in BOOLEAN :
           /\ evaluator = "evalOk" => Len(res) < MaxRes
           /\ evaluator = "evalRaises" => ~throws
           /\ Commit(ViewModelComputed(World, self, evaluator, throws),
                     [NoCall EXCEPT !.op = "computed", !.self = self,
                                    !.evaluator = evaluator])

\* vm.subscribe(source, callback)
Subscribe ==
    /\ ncalls < MaxCalls
    /\ LastCallChangedHeap
    /\ \E self \in ViewModels, source \in Sources, throws \in BOOLEAN :
           /\ source = "obs" => Len(res) < MaxRes
           /\ source # "obs" => ~throws
           /\ Commit(ViewModelSubscribe(World, self, source, throws),
                     [NoCall EXCEPT !.op = "subscribe", !.self = self,
                                    !.src = source])

\* vm.subView(Ctor, a, b)
SubView ==
    /\ ncalls < MaxCalls
    /\ LastCallChangedHeap
    /\ \E self \in ViewModels, c \in SubCtors :
           /\ ~Construct(c.ctor, c.args).raised => Len(heap) < MaxObjs
           /\ Commit(ViewModelSubView(World, self, <<c.ctor>> \o c.args),
                     [NoCall EXCEPT !.op = "subView", !.self = self,
                                    !.ctor = c.ctor, !.args = c.args])

\* vm.dispose(...)
Dispose ==
    /\ ncalls < MaxCalls
    /\ LastCallChangedHeap
    /\ \E self \in ViewModels, args \in DisposeArgs :
           Commit(ViewModelDispose(World, self, args),
                  [NoCall EXCEPT !.op = "dispose", !.self = self, !.args = args])

\* vm.disposeSubView(child), child any object or a value that is none (0)
DisposeSubView ==
    /\ ncalls < MaxCalls
    /\ LastCallChangedHeap
    /\ \E self \in ViewModels, subView \in 0..Len(heap) :
           Commit(ViewModelDisposeSubView(World, self, subView),
                  [NoCall EXCEPT !.op = "disposeSubView", !.self = self,
                                 !.arg = subView])

Next == Computed \/ Subscribe \/ SubView \/ Dispose \/ DisposeSubView

Spec == Init /\ [][Next]_vars

(* ----------------------- re-entrant hooks (SpecRe) ---------------------- *)
\* The root is a view model whose onDispose registers on it; the client calls
\* the same operations on it and on what it builds.
ReentrantCtors == {Ctor(HookedType, <<"hookReg", "1">>)}
InitRe == InitFrom(ReentrantCtors)
SpecRe == InitRe /\ [][Next]_vars

(* --------------------------- extension (SpecExt) ------------------------ *)
\* The argument lists the client constructs with: up to two numbers.
ExtArgs == {<<>>} \cup {<<a>> : a \in Numbers} \cup {<<a, b>> : a, b \in Numbers}

\* Constructor.extend = extend.bind({}, Parent): binds the root, not the
\* constructor just made, so that a chained extend loses the steps between.
ConstructorExtendBindsParent(Constructor, init, passArgsToParent) ==
    extend([Constructor EXCEPT !.ext = <<>>], init, passArgsToParent)

\* Constructor.extend = extend.bind({}, Constructor), and
\* ViewModel.extend = extend.bind({}, ViewModel) for the root.
ConstructorExtend(Constructor, init, passArgsToParent) ==
    extend(Constructor, init, passArgsToParent)

InitExt ==
    /\ log = <<>> /\ last = NoCall /\ pre = EmptyWorld /\ ncalls = 0
    /\ heap = <<>> /\ computedValues = <<>> /\ subscriptions = <<>>
    /\ subViews = <<>> /\ res = <<>> /\ rdisp = <<>> /\ vdisp = <<>>
    /\ ndone = <<>> /\ pdisp = <<>> /\ creator = <<>>
    /\ srcSubs = [s \in Sources |-> 0]
    /\ root \in BaseTypes
    /\ chain = <<>>
    /\ type = RootType(root)
    /\ made = <<>>

\* Child = extend(type, init, pass), or Child = type.extend(init, pass) once
\* type is itself the result of extend.
Extend ==
    /\ Len(chain) < MaxDepth
    /\ \E init \in Inits, pass \in BOOLEAN :
           /\ type' = IF chain = <<>> THEN extend(type, init, pass)
                                      ELSE ConstructorExtend(type, init, pass)
           /\ chain' = Append(chain, [init |-> init, pass |-> pass])
    /\ made' = <<>>
    /\ UNCHANGED <<root, heapVars>>

\* new type(a, b)
New ==
    /\ \E args \in ExtArgs :
           made' = <<[args |-> args, obj |-> Construct(type, args)]>>
    /\ UNCHANGED <<root, chain, type, heapVars>>

NextExt == Extend \/ New

SpecExt == InitExt /\ [][NextExt]_vars

(* ------------------------------- claims --------------------------------- *)
IsPrefix(p, q) == Len(p) <= Len(q) /\ SubSeq(q, 1, Len(p)) = p
InSeq(x, q) == \E k \in 1..Len(q) : q[k] = x
Resources == 1..Len(res)

\* The last call was dispose on an object on which, and on whose subViews,
\* no dispose had been invoked before: registrations only, then one dispose.
FirstDispose ==
    /\ last.op = "dispose"
    /\ \A i \in 1..Len(pre.heap) : pre.vdisp[i] = 0
    /\ \A r \in 1..Len(pre.res) : pre.rdisp[r] = 0

\* Every computed value and subscription registered on the disposed object
\* was disposed exactly once, and so was every subView it created that has
\* a dispose.
AllDisposedOnce ==
    /\ \A r \in Resources : res[r].owner = last.self => rdisp[r] = 1
    /\ \A c \in Objects :
           creator[c].by = last.self /\ heap[c].vm => vdisp[c] = 1

\* C1: after registrations on a fresh instance and one dispose(), every
\* computed value, subscription and subView of the instance has had its
\* dispose invoked exactly once. The code does not do this: the first raise
\* (also the TypeError for a subView without dispose) ends the call.
C1_DisposeOnceAlways == FirstDispose => AllDisposedOnce

\* The disposals the last call made on behalf of object i's dispose.
OwnEvents(i) == SelectSeq(log, LAMBDA e : e.by = i)
Rank(ev) ==
    CASE ev = "hook" -> 0
      [] ev = "computed" -> 1
      [] ev = "subscription" -> 2
      [] ev = "subView" -> 3
\* Hooks before computed values before subscriptions before subViews, and
\* within a group in the order of creation (identities grow with creation).
InCascadeOrder(q) ==
    \A j, k \in 1..Len(q) :
        j < k => \/ Rank(q[j].ev) < Rank(q[k].ev)
                 \/ Rank(q[j].ev) = Rank(q[k].ev) /\ q[j].ev # "hook"
                                                  /\ q[j].id < q[k].id
\* What a dispose of object i that runs to its end invokes, from the heap
\* before the call: the hook if it is a function, then the three sequences.
ExpectedOwn(i, args) ==
    (IF IsFunction(pre.heap[i].fields["onDispose"])
     THEN <<Event("hook", i, 0, args)>> ELSE <<>>)
    \o [k \in 1..Len(pre.computedValues[i]) |->
            Event("computed", i, pre.computedValues[i][k], <<>>)]
    \o [k \in 1..Len(pre.subscriptions[i]) |->
            Event("subscription", i, pre.subscriptions[i][k], <<>>)]
    \o [k \in 1..Len(pre.subViews[i]) |->
            Event("subView", i, pre.subViews[i][k], <<>>)]

\* C2: within one dispose call the hook (if a function, with the call's
\* arguments) comes first, then the computed values, then the subscriptions,
\* then the subViews, each group in registration order; a call that runs to
\* its end goes through all of them.
C2_DisposeOrder ==
    \A i \in 1..Len(pre.heap) :
        vdisp[i] > pre.vdisp[i] =>
            LET args == IF last.op = "dispose" /\ last.self = i
                        THEN last.args ELSE <<>>
            IN  /\ vdisp[i] = pre.vdisp[i] + 1
                /\ InCascadeOrder(OwnEvents(i))
                /\ IsPrefix(OwnEvents(i), ExpectedOwn(i, args))
                /\ IsFunction(pre.heap[i].fields["onDispose"])
                       => OwnEvents(i)[1] = Event("hook", i, 0, args)
                /\ ndone[i] > pre.ndone[i]
                       => OwnEvents(i) = ExpectedOwn(i, args)

\* A dispose ran to its end through a hook, a computed value, a subscription
\* and a subView.
C2_Witness ==
    /\ last.op = "dispose" /\ ~last.thrown
    /\ \A ev \in {"hook", "computed", "subscription", "subView"} :
           \E k \in 1..Len(log) : log[k].by = last.self /\ log[k].ev = ev

\* C3: subscribe with a first argument that is no observable raises and
\* registers nothing: no subscription is made on any source, and no sequence
\* of any object changes.
C3_SubscribeRejects ==
    (last.op = "subscribe" /\ ~IsObservable(last.src)) =>
        /\ last.thrown
        /\ srcSubs = pre.srcSubs
        /\ res = pre.res
        /\ computedValues = pre.computedValues
        /\ subscriptions = pre.subscriptions
        /\ subViews = pre.subViews

\* subscribe was refused for an object that has a subscribe method but is no
\* observable, on an instance that holds a subscription already.
C3_Witness ==
    /\ last.op = "subscribe" /\ last.src = "fake" /\ last.thrown
    /\ subscriptions[last.self] # <<>>

\* The last call was disposeSubView(child) with child in the receiver's
\* child sequence.
RemovalOfPresent ==
    /\ last.op = "disposeSubView"
    /\ InSeq(last.arg, pre.subViews[last.self])

\* Exactly the child is gone from the sequence, the others as they were and
\* in their order; the child's dispose was invoked once, no sibling's was.
ChildRemovedAndDisposed ==
    /\ Cardinality({k \in 1..Len(pre.subViews[last.self]) :
                        pre.subViews[last.self][k] = last.arg}) = 1
    /\ subViews[last.self] =
           SelectSeq(pre.subViews[last.self], LAMBDA c : c # last.arg)
    /\ vdisp[last.arg] = pre.vdisp[last.arg] + 1
    /\ \A k \in 1..Len(subViews[last.self]) :
           vdisp[subViews[last.self][k]] = pre.vdisp[subViews[last.self][k]]

\* C4 as stated: disposeSubView(child) on a child in the sequence removes
\* exactly that child and invokes its dispose once; the other children stay,
\* undisposed and in order.
C4_RemovesPresentChild == RemovalOfPresent => ChildRemovedAndDisposed

\* C4, amended: disposeSubView(child) on a child that is in the sequence and
\* has a callable dispose removes exactly that child and invokes its dispose
\* once; the other children stay, undisposed and in order.
C4_RemovesDisposableChild ==
    (RemovalOfPresent /\ pre.heap[last.arg].vm) => ChildRemovedAndDisposed

\* The middle one of three children was removed.
C4_Witness ==
    /\ RemovalOfPresent /\ pre.heap[last.arg].vm
    /\ Len(pre.subViews[last.self]) = 3
    /\ pre.subViews[last.self][2] = last.arg

\* C5: disposeSubView(child) with a child that is not in the receiver's child
\* sequence does not raise, invokes no dispose and changes no sequence.
C5_AbsentChildNoOp ==
    (last.op = "disposeSubView" /\ ~InSeq(last.arg, pre.subViews[last.self])) =>
        /\ ~last.thrown
        /\ log = <<>>
        /\ rdisp = pre.rdisp /\ vdisp = pre.vdisp
        /\ computedValues = pre.computedValues
        /\ subscriptions = pre.subscriptions
        /\ subViews = pre.subViews

\* disposeSubView was called again for a child the receiver had created and
\* already removed, with another child still in the sequence.
C5_Witness ==
    /\ last.op = "disposeSubView" /\ last.arg # 0
    /\ creator[last.arg].by = last.self
    /\ ~InSeq(last.arg, pre.subViews[last.self])
    /\ pre.subViews[last.self] # <<>>

\* C8: subView(Ctor, a, b) returns a new object equal in prototype and
\* fields to new Ctor(a, b), and appends it to the receiver's child sequence
\* (and raises where new Ctor(a, b) raises).
C8_SubViewAsNew ==
    last.op = "subView" =>
        IF Construct(last.ctor, last.args).raised
        THEN last.thrown
        ELSE /\ ~last.thrown
             /\ last.ret = Len(pre.heap) + 1
             /\ heap[last.ret] = Construct(last.ctor, last.args)
             /\ subViews[last.self] = Append(pre.subViews[last.self], last.ret)

\* subView built a hooked view model from two arguments, as a second child.
C8_Witness ==
    /\ last.op = "subView" /\ last.ctor = HookedType
    /\ last.args = <<"hookNoop", "1">>
    /\ heap[last.ret].fields["onDispose"] = "hookNoop"
    /\ Len(subViews[last.self]) = 2

\* The disposals a dispose of object i goes through when nothing raises, its
\* subViews' included, in order, from world W.
RECURSIVE Cascade(_, _, _)
RECURSIVE CascadeSubViews(_, _, _, _)
Cascade(W, i, args) ==
    (IF IsFunction(W.heap[i].fields["onDispose"])
     THEN <<Event("hook", i, 0, args)>> ELSE <<>>)
    \o [k \in 1..Len(W.computedValues[i]) |->
            Event("computed", i, W.computedValues[i][k], <<>>)]
    \o [k \in 1..Len(W.subscriptions[i]) |->
            Event("subscription", i, W.subscriptions[i][k], <<>>)]
    \o CascadeSubViews(W, i, W.subViews[i], 1)
CascadeSubViews(W, i, list, k) ==
    IF k > Len(list) THEN <<>>
    ELSE <<Event("subView", i, list[k], <<>>)>>
         \o (IF W.heap[list[k]].vm THEN Cascade(W, list[k], <<>>) ELSE <<>>)
         \o CascadeSubViews(W, i, list, k + 1)

\* The disposal e was not made, and what it is about is still registered.
Unreached(e) ==
    CASE e.ev = "hook" -> TRUE
      [] e.ev = "computed" ->
             rdisp[e.id] = pre.rdisp[e.id] /\ InSeq(e.id, computedValues[e.by])
      [] e.ev = "subscription" ->
             rdisp[e.id] = pre.rdisp[e.id] /\ InSeq(e.id, subscriptions[e.by])
      [] e.ev = "subView" ->
             vdisp[e.id] = pre.vdisp[e.id] /\ InSeq(e.id, subViews[e.by])
\* The disposal e was made, once.
Reached(e) ==
    CASE e.ev = "hook" -> TRUE
      [] e.ev \in {"computed", "subscription"} -> rdisp[e.id] = pre.rdisp[e.id] + 1
      [] e.ev = "subView" -> vdisp[e.id] = pre.vdisp[e.id] + 1
\* The disposal e raises: a raising hook or a raising resource.
Raises(e) ==
    CASE e.ev = "hook" -> pre.heap[e.by].fields["onDispose"] = "hookThrow"
      [] e.ev \in {"computed", "subscription"} -> pre.res[e.id].throws
      [] e.ev = "subView" -> FALSE

\* C9: a dispose() in which the hook or a resource's dispose raises raises
\* itself and ends there: what precedes the raise in cascade order was
\* disposed once and stays so, nothing that follows it is disposed, and what
\* follows is still in its sequence.
C9_AbortOnRaise ==
    LET full == Cascade(pre, last.self, last.args)
    IN  last.op = "dispose" =>
            /\ last.thrown <=>
                   \E k \in 1..Len(full) :
                       Raises(full[k]) \/ (full[k].ev = "subView"
                                           /\ ~pre.heap[full[k].id].vm)
            /\ last.thrown =>
                   /\ IsPrefix(log, full)
                   /\ \A k \in 1..Len(log) : Reached(log[k])
                   /\ \A k \in 1..(Len(log) - 1) : ~Raises(log[k])
                   /\ \A k \in (Len(log) + 1)..Len(full) : Unreached(full[k])
                   /\ \/ log # <<>> /\ Raises(log[Len(log)])
                      \/ /\ Len(log) < Len(full)
                         /\ full[Len(log) + 1].ev = "subView"
                         /\ ~pre.heap[full[Len(log) + 1].id].vm

\* A dispose() raised after it had disposed something, with a resource still
\* to come.
C9_Witness ==
    /\ last.op = "dispose" /\ last.thrown /\ log # <<>>
    /\ \E k \in (Len(log) + 1)..Len(Cascade(pre, last.self, last.args)) :
           Cascade(pre, last.self, last.args)[k].ev \in {"computed", "subscription"}

\* The last call was a registration whose creation step raises: the
\* evaluator in ko.computed, the source's subscribe, or the constructor.
CreationRaises ==
    \/ last.op = "computed" /\ last.evaluator = "evalRaises"
    \/ last.op = "subscribe" /\ last.src = "obsRaises"
    \/ last.op = "subView" /\ Construct(last.ctor, last.args).raised

\* The last call registered on an object whose dispose had been invoked.
RegistrationAfterDispose ==
    /\ last.op \in {"computed", "subscribe", "subView"}
    /\ last.op = "subscribe" => IsObservable(last.src)
    /\ ~CreationRaises
    /\ pre.vdisp[last.self] >= 1
\* The registration returned what it made and appended it to its sequence.
Registered ==
    /\ ~last.thrown
    /\ last.op = "computed" =>
           computedValues[last.self] = Append(pre.computedValues[last.self], last.ret)
    /\ last.op = "subscribe" =>
           subscriptions[last.self] = Append(pre.subscriptions[last.self], last.ret)
    /\ last.op = "subView" =>
           subViews[last.self] = Append(pre.subViews[last.self], last.ret)
\* The resources and children (those with a dispose) of the receiver
\* registered after one of its dispose() calls had completed, not disposed
\* since and not removed.
FreshResources ==
    {r \in 1..Len(pre.res) : /\ pre.res[r].owner = last.self
                             /\ pre.res[r].epoch >= 1
                             /\ pre.rdisp[r] = 0}
FreshChildren ==
    {c \in 1..Len(pre.heap) : /\ pre.creator[c].by = last.self
                              /\ pre.creator[c].epoch >= 1
                              /\ pre.heap[c].vm
                              /\ InSeq(c, pre.subViews[last.self])}
\* The last dispose() disposed the receiver's fresh resources and children,
\* once each, and nothing else of the receiver's.
DisposedTheFresh ==
    /\ \A r \in 1..Len(pre.res) :
           pre.res[r].owner = last.self =>
               rdisp[r] = pre.rdisp[r] + (IF r \in FreshResources THEN 1 ELSE 0)
    /\ \A c \in 1..Len(pre.heap) :
           pre.creator[c].by = last.self =>
               vdisp[c] = pre.vdisp[c] + (IF c \in FreshChildren THEN 1 ELSE 0)

\* C10: computed, subscribe and subView after dispose() succeed and append,
\* and a later dispose() disposes exactly what was registered since. The
\* code does not do the latter when the later dispose() raises on its way.
C10_ReuseAfterDisposeAlways ==
    /\ RegistrationAfterDispose => Registered
    /\ (last.op = "dispose" /\ pre.ndone[last.self] >= 1) => DisposedTheFresh

(* --------------------------- claims on extend --------------------------- *)
\* The last construction was new Child(args) for
\* Child = extend(Parent, function (y) { this.y = y; }, pass).
ChildScenario(pass, args) ==
    /\ root = "Parent"
    /\ chain = <<[init |-> "initY", pass |-> pass]>>
    /\ made # <<>>
    /\ made[1].args = args

\* C6 as stated: Child(1, 2) has x = 1 and y = 2 when the arguments are
\* passed to Parent, and x undefined when they are not.
C6_ChildFieldsAsStated ==
    /\ ChildScenario(TRUE, <<"1", "2">>) =>
           made[1].obj.fields["x"] = "1" /\ made[1].obj.fields["y"] = "2"
    /\ ChildScenario(FALSE, <<"1", "2">>) =>
           made[1].obj.fields["x"] = Undefined

\* C6, amended: init receives all the constructor arguments, so Child(a, b)
\* has y = a; Child(1, 2) has x = 1 and y = 1 when the arguments are passed
\* to Parent, and x undefined and y = 1 when they are not.
C6_ChildFields ==
    \A pass \in BOOLEAN, args \in ExtArgs :
        ChildScenario(pass, args) =>
            /\ made[1].obj.fields["y"] = Arg(args, 1)
            /\ made[1].obj.fields["x"] = IF pass THEN Arg(args, 1) ELSE Undefined
            /\ made[1].obj.fields["onDispose"] = Undefined

\* Child(1, 2) was built with the arguments passed to Parent.
C6_Witness ==
    /\ ChildScenario(TRUE, <<"1", "2">>)
    /\ made[1].obj.fields["x"] = "1"

\* The constructor arguments that reach step k of the chain (0: the root
\* constructor): all of them if every later step passes its arguments to
\* its parent, none otherwise.
ArgsSeen(k, args) ==
    IF \A j \in (k + 1)..Len(chain) : chain[j].pass THEN args ELSE <<>>
\* The steps of the chain, the root being step 0, that set field f.
Setters(f) ==
    {k \in 0..Len(chain) : IF k = 0 THEN root = "Parent" /\ f = "x"
                                    ELSE InitField(chain[k].init) = f}
Latest(S) == CHOOSE k \in S : \A j \in S : j <= k
\* Field f after the root constructor and the inits ran in chain order, each
\* on the arguments that reach it: the value the latest setter gave it.
ExpectedField(f, args) ==
    IF Setters(f) = {} THEN Undefined
    ELSE LET k == Latest(Setters(f))
         IN  Arg(ArgsSeen(k, args), IF k = 0 THEN 1 ELSE InitArg(chain[k].init))

\* C7: an instance of a type made by chained extend is one object of the
\* root type on which the root constructor, the first init and the later
\* inits ran in that order, a later step's value standing on a collision.
C7_ChainedExtend ==
    (made # <<>> /\ Len(chain) >= 2) =>
        LET obj == made[1].obj
        IN  /\ obj.proto = root
            /\ obj.vm = (root = "ViewModel")
            /\ obj.applied = <<root>> \o [k \in 1..Len(chain) |-> chain[k].init]
            /\ \A f \in FieldNames :
                   obj.fields[f] = ExpectedField(f, made[1].args)

\* GrandChild = Child.extend(initFn2) with no flag, both inits setting y:
\* GrandChild(1, 2) carries the y that initFn2 set.
C7_Witness ==
    /\ made # <<>> /\ made[1].args = <<"1", "2">>
    /\ root = "Parent"
    /\ Len(chain) = 2 /\ ~chain[2].pass
    /\ chain[1].init = "initY" /\ chain[2].init = "initY"
    /\ made[1].obj.fields["y"] = "1"

(* --------------------- claims on ownership and frames ------------------- *)
\* a is i, or the object whose subView call built i, or that one's, ...
RECURSIVE IsAncestorOrSelf(_, _)
IsAncestorOrSelf(a, i) ==
    \/ i = a
    \/ creator[i].by # 0 /\ IsAncestorOrSelf(a, creator[i].by)

\* The last call was dispose or disposeSubView.
DisposingCall == last.op \in {"dispose", "disposeSubView"}

\* C11: every instance has its own three sequences, whatever type it was
\* built from: dispose() and disposeSubView() of an instance dispose only
\* resources and subViews registered through it or through its descendants,
\* never those of another instance that it is no ancestor of.
C11_OwnSequences ==
    DisposingCall =>
        /\ \A r \in 1..Len(pre.res) :
               rdisp[r] # pre.rdisp[r] => IsAncestorOrSelf(last.self, res[r].owner)
        /\ \A c \in 1..Len(pre.heap) :
               vdisp[c] # pre.vdisp[c] => IsAncestorOrSelf(last.self, c)

\* Two instances built from the same extended type, neither the other's
\* ancestor: one was disposed, the other holds a resource still undisposed.
C11_Witness ==
    /\ last.op = "dispose" /\ ~last.thrown
    /\ \E i \in Objects, r \in Resources :
           /\ i # last.self
           /\ heap[i].applied = heap[last.self].applied
           /\ Len(heap[i].applied) > 1
           /\ ~IsAncestorOrSelf(last.self, i)
           /\ ~IsAncestorOrSelf(i, last.self)
           /\ res[r].owner = i /\ res[r].kind = "computed"
           /\ rdisp[r] = 0 /\ InSeq(r, computedValues[i])

\* The three sequences of instance j in world W.
SeqsOf(W, j) == <<W.computedValues[j], W.subscriptions[j], W.subViews[j]>>

\* The instances that existed before the last call and whose sequences the
\* call changed.
Mutated ==
    {j \in 1..Len(pre.heap) :
        \/ computedValues[j] # pre.computedValues[j]
        \/ subscriptions[j] # pre.subscriptions[j]
        \/ subViews[j] # pre.subViews[j]}

\* The last call left every object's fields and every resource as they were
\* (objects and resources it created come after them).
RestUnchanged ==
    /\ \A j \in 1..Len(pre.heap) : heap[j] = pre.heap[j]
    /\ \A r \in 1..Len(pre.res) : res[r] = pre.res[r]
    /\ \A j \in 1..Len(pre.heap) : creator[j] = pre.creator[j]

\* What a registering call may change: one sequence of the receiver.
RegistersOnlyOwn ==
    /\ Mutated \subseteq {last.self}
    /\ last.op \in {"computed", "subscribe"} => Len(heap) = Len(pre.heap)
    /\ last.op # "computed" =>
           computedValues[last.self] = pre.computedValues[last.self]
    /\ last.op # "subscribe" =>
           subscriptions[last.self] = pre.subscriptions[last.self]
    /\ last.op # "subView" => subViews[last.self] = pre.subViews[last.self]

\* C12 as stated: every operation invoked on an instance changes that
\* instance's three sequences only; the sequences of every other instance
\* stay as they were.
C12_FrameAsStated ==
    last.op # "new" => Mutated \subseteq {last.self} /\ RestUnchanged

\* C12: computed, subscribe and subView change one sequence of the instance
\* they are invoked on and nothing else; dispose and disposeSubView change
\* the sequences of that instance and of those descendants whose dispose
\* the call invoked, and nothing else.
C12_Frame ==
    /\ last.op \in {"computed", "subscribe", "subView"} =>
           RegistersOnlyOwn /\ RestUnchanged
    /\ DisposingCall =>
           /\ RestUnchanged
           /\ Len(heap) = Len(pre.heap)
           /\ \A j \in Mutated \ {last.self} :
                  /\ IsAncestorOrSelf(last.self, j)
                  /\ vdisp[j] > pre.vdisp[j]

\* A dispose() has emptied the sequences of its receiver and of a child,
\* while an instance outside that subtree keeps what is registered on it.
C12_Witness ==
    /\ last.op = "dispose"
    /\ last.self \in Mutated
    /\ \E j \in Mutated : j # last.self /\ vdisp[j] > pre.vdisp[j]
    /\ \E i \in Objects :
           /\ ~IsAncestorOrSelf(last.self, i)
           /\ SeqsOf(World, i) = SeqsOf(pre, i)
           /\ SeqsOf(World, i) # <<<<>>, <<>>, <<>>>>

\* Sequence q holds nothing twice.
NoDuplicate(q) == \A a, b \in 1..Len(q) : a < b => q[a] # q[b]

\* Sequence q of instance j holds only resources of the given kind that were
\* created on j.
OwnOfKind(q, j, kind) ==
    \A k \in 1..Len(q) : res[q[k]].owner = j /\ res[q[k]].kind = kind

\* C13: in every reachable state a derived value or subscription that was
\* created on an instance and is not yet disposed occurs exactly once in that
\* instance's sequences, a derived value in computedValues only and a
\* subscription in subscriptions only; no sequence holds a resource twice.
C13_RegisteredOnce ==
    /\ \A r \in Resources :
           rdisp[r] = 0 =>
               InSeq(r, IF res[r].kind = "computed"
                        THEN computedValues[res[r].owner]
                        ELSE subscriptions[res[r].owner])
    /\ \A j \in Objects :
           /\ OwnOfKind(computedValues[j], j, "computed")
           /\ OwnOfKind(subscriptions[j], j, "subscription")
           /\ NoDuplicate(computedValues[j])
           /\ NoDuplicate(subscriptions[j])

\* One instance holds an undisposed derived value and an undisposed
\* subscription, the second of them registered by the last call.
C13_Witness ==
    \E i \in Objects, c, s \in Resources :
        /\ res[c].owner = i /\ res[c].kind = "computed" /\ rdisp[c] = 0
        /\ res[s].owner = i /\ res[s].kind = "subscription" /\ rdisp[s] = 0
        /\ InSeq(c, computedValues[i]) /\ InSeq(s, subscriptions[i])
        /\ last.op \in {"computed", "subscribe"} /\ last.self = i

(* ------------------------- claims on the cascade ------------------------ *)
\* Instance i and everything below it in world W: the instances in its
\* sequence of subViews, those in theirs, and so on.
RECURSIVE Owned(_, _)
Owned(W, i) ==
    {i} \cup UNION {Owned(W, W.subViews[i][k]) : k \in 1..Len(W.subViews[i])}

\* The last call was a dispose() that returned normally.
DisposeReturned == last.op = "dispose" /\ ~last.thrown

\* C14: dispose() cascades through the whole tree: when dispose() has
\* returned normally on an instance, every instance below it through any
\* chain of subViews has had its dispose invoked by the call, every derived
\* value and subscription registered on any of them has been disposed, and
\* the three sequences of all of them are empty.
C14_CascadeTransitive ==
    DisposeReturned =>
        \A j \in Owned(pre, last.self) :
            /\ vdisp[j] = pre.vdisp[j] + 1
            /\ SeqsOf(World, j) = <<<<>>, <<>>, <<>>>>
            /\ \A r \in Resources :
                   /\ res[r].owner = j => rdisp[r] >= 1
                   /\ (InSeq(r, pre.computedValues[j])
                       \/ InSeq(r, pre.subscriptions[j])) =>
                          rdisp[r] = pre.rdisp[r] + 1

\* A normally returning dispose() of an instance whose subView has a subView
\* of its own, which held a resource.
C14_Witness ==
    /\ DisposeReturned
    /\ \E c, g \in Objects, r \in Resources :
           /\ InSeq(c, pre.subViews[last.self])
           /\ InSeq(g, pre.subViews[c])
           /\ res[r].owner = g
           /\ InSeq(r, pre.computedValues[g]) \/ InSeq(r, pre.subscriptions[g])

\* The last call was disposeSubView(child) for a child that was in the
\* receiver's sequence and has no callable dispose.
RemovalOfUndisposable ==
    /\ last.op = "disposeSubView"
    /\ InSeq(last.arg, pre.subViews[last.self])
    /\ ~pre.heap[last.arg].vm

\* C15: disposeSubView(child) for a child that is in the sequence but has no
\* callable dispose does nothing: it does not raise, nothing is disposed and
\* the child stays in the sequence where it was; a later dispose() of the
\* parent therefore still comes to it (and raises there at the latest).
C15_UndisposableChildStays ==
    /\ RemovalOfUndisposable =>
           /\ ~last.thrown
           /\ log = <<>>
           /\ World = pre
           /\ IndexOf(subViews[last.self], last.arg) =
                  IndexOf(pre.subViews[last.self], last.arg)
    /\ (/\ last.op = "dispose"
        /\ \E k \in 1..Len(pre.subViews[last.self]) :
               ~pre.heap[pre.subViews[last.self][k]].vm) =>
           /\ last.thrown
           /\ subViews[last.self] = pre.subViews[last.self]

\* disposeSubView was called for a child without dispose that stands before
\* another child in the sequence.
C15_Witness ==
    /\ RemovalOfUndisposable
    /\ Len(subViews[last.self]) >= 2
    /\ subViews[last.self][1] = last.arg
    /\ heap[subViews[last.self][2]].vm

\* Every dispose() invoked so far has returned normally: no hook, no
\* resource's dispose and no subView's dispose has raised.
NoRaiseSoFar == \A i \in Objects : vdisp[i] = ndone[i]

\* The last call found nothing registered on its receiver since the
\* receiver's latest dispose().
NothingRegisteredSince ==
    /\ \A r \in 1..Len(pre.res) :
           pre.res[r].owner = last.self => pre.res[r].epoch < pre.ndone[last.self]
    /\ \A c \in 1..Len(pre.heap) :
           pre.creator[c].by = last.self =>
               pre.creator[c].epoch < pre.ndone[last.self]

\* The last call invoked no dispose of a resource or of a subView.
DisposedNothing ==
    /\ \A k \in 1..Len(log) : log[k].ev = "hook"
    /\ rdisp = pre.rdisp /\ pdisp = pre.pdisp

\* C16: as long as no dispose and no hook has raised, no derived value and
\* no subscription has had its dispose invoked more than once, and no child
\* has had its dispose invoked more than once by the instance that built it,
\* whatever calls were made (repeated dispose(), disposeSubView(child) and
\* then dispose()); a dispose() repeated with nothing registered in between
\* disposes nothing.
C16_NoDoubleDispose ==
    NoRaiseSoFar =>
        /\ \A r \in Resources : rdisp[r] <= 1
        /\ \A c \in Objects : pdisp[c] <= 1
        /\ (/\ last.op = "dispose"
            /\ pre.ndone[last.self] >= 1
            /\ NothingRegisteredSince) => DisposedNothing

\* dispose() was repeated on an instance whose first dispose() had released
\* a resource and a child, with nothing registered in between and nothing
\* raised.
C16_Witness ==
    /\ NoRaiseSoFar
    /\ last.op = "dispose" /\ pre.ndone[last.self] >= 1
    /\ NothingRegisteredSince
    /\ \E r \in Resources : res[r].owner = last.self /\ rdisp[r] = 1
    /\ \E c \in Objects : creator[c].by = last.self /\ pdisp[c] = 1

(* ---------------------- claims on failed creation ----------------------- *)
\* C17: a creation that fails registers nothing: when the evaluator raises
\* in ko.computed, when the source's subscribe raises, or when the
\* constructor handed to subView raises, the call raises and the three
\* sequences of every instance, and everything else, are as they were.
C17_FailedCreation ==
    CreationRaises =>
        /\ last.thrown
        /\ SeqsOf(World, last.self) = SeqsOf(pre, last.self)
        /\ World = pre
        /\ log = <<>>

\* A creation raised on an instance that holds a derived value, a
\* subscription and a child.
C17_Witness ==
    /\ CreationRaises
    /\ computedValues[last.self] # <<>>
    /\ subscriptions[last.self] # <<>>
    /\ subViews[last.self] # <<>>

(* ---------------------- claims on the ownership forest ------------------ *)
\* Instance p has c in its sequence of subViews.
Owns(p, c) == InSeq(c, subViews[p])

\* C18: the ownership relation that subView builds is a forest in every
\* reachable state: an instance is in the sequence of subViews of at most
\* one instance, once, and that is the instance that built it, earlier than
\* it was built itself, so that no instance is its own ancestor. A dispose
\* call therefore comes to every instance at most once, and ends when the
\* hooks and the resources' dispose do.
C18_OwnershipForest ==
    /\ \A p \in Objects :
           \A k \in 1..Len(subViews[p]) :
               /\ \A q \in Objects \ {p} : ~Owns(q, subViews[p][k])
               /\ \A n \in 1..(k - 1) : subViews[p][n] # subViews[p][k]
               /\ creator[subViews[p][k]].by = p
               /\ p < subViews[p][k]
    /\ DisposingCall =>
           \A j \in Objects : vdisp[j] <= pre.vdisp[j] + 1

\* An instance with two subViews, one of which has a subView of its own.
C18_Witness ==
    \E p, c, d, g \in Objects :
        /\ c # d
        /\ Owns(p, c) /\ Owns(p, d) /\ Owns(c, g)
        /\ creator[p].by = 0

(* ----------------------- claims on re-entrant hooks --------------------- *)
\* The instances whose registering onDispose hook ran during the last call.
HookRegistered ==
    {j \in 1..Len(pre.heap) :
        /\ pre.heap[j].fields["onDispose"] = "hookReg"
        /\ \E k \in 1..Len(log) : log[k].ev = "hook" /\ log[k].by = j}

\* What the hook of instance j registered during the last call.
HookResources(j) == {r \in (Len(pre.res) + 1)..Len(res) : res[r].owner = j}
HookChildren(j) == {c \in (Len(pre.heap) + 1)..Len(heap) : creator[c].by = j}

\* The log has the disposal of id of the given kinds after the hook of j.
DisposedAfterHook(j, evs, id) ==
    \E h, k \in 1..Len(log) :
        /\ log[h].ev = "hook" /\ log[h].by = j
        /\ h < k
        /\ log[k].ev \in evs /\ log[k].by = j /\ log[k].id = id

\* The last call disposed, once and after the hook, everything the hook of
\* instance j registered on j.
SweptInSameCall(j) ==
    /\ HookResources(j) # {} /\ HookChildren(j) # {}
    /\ \A r \in HookResources(j) :
           rdisp[r] = 1 /\ DisposedAfterHook(j, {"computed", "subscription"}, r)
    /\ \A c \in HookChildren(j) :
           vdisp[c] = 1 /\ DisposedAfterHook(j, {"subView"}, c)

\* C19: what onDispose registers on the instance being disposed (by
\* computed, subscribe or subView) is disposed later in the same dispose()
\* call, and the three sequences are empty when the call returns. The code
\* does not do this when the sweep raises before it reaches them.
C19_ReentrantAsStated ==
    \A j \in HookRegistered :
        /\ SweptInSameCall(j)
        /\ ~last.thrown => SeqsOf(World, j) = <<<<>>, <<>>, <<>>>>

====
